---- MODULE Spec2Model ----
(***************************************************************************)
(* Model of translate_file_app_en_to_zh_chunking.py:                       *)
(*   - split_text_into_chunks (lines 80-139), one action per branch of     *)
(*     the paragraph loop and of the forced-slicing loop;                  *)
(*   - translate_text (lines 143-180) and the translation loop of the      *)
(*     main script (lines 266-301).                                        *)
(* Text is a sequence of characters; NL is the newline character.          *)
(***************************************************************************)
EXTENDS Integers, Sequences, FiniteSets, TLC

\* ------------------------------------------------------------------ bounds
MaxTextLen == 6      \* longest input text drawn for split_text_into_chunks
MaxChars == 4        \* largest max_chars drawn
BelowOne == 1        \* how many values below 1 are drawn for max_chars (0, -1, ...)

\* -------------------------------------------------------------- characters
NL == "\n"
SP == " "
Alphabet == {"a", SP, NL}
Whitespace == {SP, NL}

\* The paragraph separator of text.split('\n\n') and of "\n\n" + paragraph.
Sep == <<NL, NL>>

Texts == UNION {[1..n -> Alphabet] : n \in 0..MaxTextLen}

Min(a, b) == IF a < b THEN a ELSE b

\* ------------------------------------------------------- Python primitives
\* s[start:end] with Python's index normalisation (negative indexes count
\* from the end, everything is clamped to 0..len(s)).
PyIndex(i, n) == IF i < 0 THEN (IF i + n < 0 THEN 0 ELSE i + n)
                 ELSE (IF i > n THEN n ELSE i)

PySlice(s, start, end) ==
    LET lo == PyIndex(start, Len(s))
        hi == PyIndex(end, Len(s))
    IN  IF lo < hi THEN SubSeq(s, lo + 1, hi) ELSE <<>>

\* s.split('\n\n'): leftmost, non-overlapping occurrences of the separator.
RECURSIVE SplitFrom(_, _, _, _)
SplitFrom(s, i, acc, out) ==
    IF i > Len(s) THEN Append(out, acc)
    ELSE IF i < Len(s) /\ s[i] = NL /\ s[i + 1] = NL
         THEN SplitFrom(s, i + 2, <<>>, Append(out, acc))
         ELSE SplitFrom(s, i + 1, Append(acc, s[i]), out)

PySplit(s) == SplitFrom(s, 1, <<>>, <<>>)

\* "".join(parts)
RECURSIVE Concat(_)
Concat(parts) == IF parts = <<>> THEN <<>> ELSE Head(parts) \o Concat(Tail(parts))

\* s.strip(): leading and trailing whitespace removed.
RECURSIVE LStrip(_)
LStrip(s) == IF s # <<>> /\ Head(s) \in Whitespace THEN LStrip(Tail(s)) ELSE s

RECURSIVE RStrip(_)
RStrip(s) == IF s # <<>> /\ s[Len(s)] \in Whitespace
             THEN RStrip(SubSeq(s, 1, Len(s) - 1)) ELSE s

PyStrip(s) == RStrip(LStrip(s))

\* ------------------------------------------------------------------- state
VARIABLES
    \* split_text_into_chunks
    text, max_chars, pc, paragraphs, pidx, start, current_chunk, chunks,
    \* history of split_text_into_chunks: the slices cut from the paragraph
    \* being force-split, and the paragraph pieces each chunk was built from
    slices, cur_src, chunk_src,
    \* main script: chunking step and translation loop
    lpc, text_chunks, total_chunks, i, translated_chunk, translated_chunks,
    errors_occurred, final_translated_text,
    \* history of the translation loop: the calls of translate_text, their
    \* returns and the time.sleep delays, in the order they happened
    events

chunkVars == <<text, max_chars, pc, paragraphs, pidx, start, current_chunk, chunks,
               slices, cur_src, chunk_src>>

procVars == <<lpc, text_chunks, total_chunks, i, translated_chunk, translated_chunks,
              errors_occurred, final_translated_text, events>>

vars == <<chunkVars, procVars>>

\* ------------------------------------------- split_text_into_chunks (80-139)
\* line 91: the paragraph alone exceeds the limit
IsOversized(paragraph, m) == Len(paragraph) > m

\* mutant of ParagraphFits: the separator's two characters are not counted
ParagraphFitsNoSep(cur, paragraph, m) == Len(cur) + Len(paragraph) <= m

\* line 125: the paragraph still fits in current_chunk, "+2 for '\n\n'"
ParagraphFits(cur, paragraph, m) == Len(cur) + Len(paragraph) + 2 <= m

\* line 101: the slice still fits in current_chunk
SliceFits(cur, slice, m) == Len(cur) + Len(slice) + 2 <= m

\* mutant of SliceEnd: the slice is one character too long
SliceEndTooFar(st, m, paragraph) == Min(st + m + 1, Len(paragraph))

\* line 97
SliceEnd(st, m, paragraph) == Min(st + m, Len(paragraph))

\* mutant of NextStart: the character at the cut is skipped
NextStartSkips(end) == end + 1

\* line 117
NextStart(end) == end

\* mutant of JoinPiece: the piece overwrites current_chunk
JoinPieceOverwrites(cur, piece) == piece

\* lines 102-105 and 126-129
JoinPiece(cur, piece) == IF cur # <<>> THEN cur \o Sep \o piece ELSE piece

\* line 113
SliceIsFull(cur, m) == Len(cur) >= m

Piece(para, from, to) == [para |-> para, from |-> from, to |-> to]

\* The forced-slicing loop does not end when max_chars < 1; the number of
\* chunks it may emit is capped here.  No run with max_chars >= 1 reaches it.
MaxEmit == 2 * MaxTextLen + 3

ChunkerEntry ==
    /\ pc = "call"
    /\ paragraphs = <<>>
    /\ pidx = 0
    /\ start = 0
    /\ current_chunk = <<>>
    /\ chunks = <<>>
    /\ slices = <<>>
    /\ cur_src = <<>>
    /\ chunk_src = <<>>

\* the main script is not running
ProcIdle ==
    /\ text_chunks = <<>>
    /\ total_chunks = 0
    /\ i = 0
    /\ translated_chunk = <<>>
    /\ translated_chunks = <<>>
    /\ errors_occurred = FALSE
    /\ final_translated_text = <<>>
    /\ events = <<>>

\* a direct call of split_text_into_chunks(text, max_chars)
Init ==
    /\ text \in Texts
    /\ max_chars \in (0 - BelowOne)..MaxChars
    /\ ChunkerEntry
    /\ lpc = "none"
    /\ ProcIdle

\* lines 84-87
Begin ==
    /\ pc = "call"
    /\ chunks' = <<>>
    /\ paragraphs' = PySplit(text)
    /\ current_chunk' = <<>>
    /\ pc' = "for"
    /\ pidx' = 0
    /\ UNCHANGED <<text, max_chars, start, slices, cur_src, chunk_src>>
    /\ UNCHANGED procVars

\* lines 89-93: an oversized paragraph enters the forced-slicing loop
StartLongParagraph ==
    /\ pc = "for" /\ pidx < Len(paragraphs)
    /\ IsOversized(paragraphs[pidx + 1], max_chars)
    /\ start' = 0
    /\ slices' = <<>>
    /\ pc' = "while"
    /\ UNCHANGED <<text, max_chars, paragraphs, pidx, current_chunk, chunks,
                   cur_src, chunk_src>>
    /\ UNCHANGED procVars

\* lines 94-105, 117: the slice is merged into current_chunk
SliceMerge ==
    /\ pc = "while" /\ start < Len(paragraphs[pidx + 1])
    /\ LET paragraph == paragraphs[pidx + 1]
           end == SliceEnd(start, max_chars, paragraph)
           long_para_chunk == PySlice(paragraph, start, end)
       IN  /\ SliceFits(current_chunk, long_para_chunk, max_chars)
           /\ current_chunk' = JoinPiece(current_chunk, long_para_chunk)
           /\ cur_src' = Append(cur_src, Piece(pidx + 1, start, end))
           /\ slices' = Append(slices, [from |-> start, to |-> end,
                                        body |-> long_para_chunk])
           /\ start' = NextStart(end)
    /\ UNCHANGED <<text, max_chars, pc, paragraphs, pidx, chunks, chunk_src>>
    /\ UNCHANGED procVars

\* lines 94-100, 106-117: current_chunk is stored (if non-empty), the slice
\* starts the next one and is stored at once when it is full
SliceFlush ==
    /\ pc = "while" /\ start < Len(paragraphs[pidx + 1])
    /\ Len(chunks) < MaxEmit
    /\ LET paragraph == paragraphs[pidx + 1]
           end == SliceEnd(start, max_chars, paragraph)
           long_para_chunk == PySlice(paragraph, start, end)
           stored == IF current_chunk # <<>> THEN Append(chunks, current_chunk)
                     ELSE chunks
           stored_src == IF current_chunk # <<>> THEN Append(chunk_src, cur_src)
                         ELSE chunk_src
           here == <<Piece(pidx + 1, start, end)>>
       IN  /\ ~SliceFits(current_chunk, long_para_chunk, max_chars)
           /\ IF SliceIsFull(long_para_chunk, max_chars)
              THEN /\ chunks' = Append(stored, long_para_chunk)
                   /\ chunk_src' = Append(stored_src, here)
                   /\ current_chunk' = <<>>
                   /\ cur_src' = <<>>
              ELSE /\ chunks' = stored
                   /\ chunk_src' = stored_src
                   /\ current_chunk' = long_para_chunk
                   /\ cur_src' = here
           /\ slices' = Append(slices, [from |-> start, to |-> end,
                                        body |-> long_para_chunk])
           /\ start' = NextStart(end)
    /\ UNCHANGED <<text, max_chars, pc, paragraphs, pidx>>
    /\ UNCHANGED procVars

\* lines 94, 118-120: the paragraph is used up, on to the next one
EndWhile ==
    /\ pc = "while" /\ ~(start < Len(paragraphs[pidx + 1]))
    /\ pc' = "for"
    /\ pidx' = pidx + 1
    /\ UNCHANGED <<text, max_chars, paragraphs, start, current_chunk, chunks,
                   slices, cur_src, chunk_src>>
    /\ UNCHANGED procVars

\* lines 123-129: the paragraph is merged into current_chunk
MergeParagraph ==
    /\ pc = "for" /\ pidx < Len(paragraphs)
    /\ LET paragraph == paragraphs[pidx + 1]
       IN  /\ ~IsOversized(paragraph, max_chars)
           /\ ParagraphFits(current_chunk, paragraph, max_chars)
           /\ current_chunk' = JoinPiece(current_chunk, paragraph)
           /\ cur_src' = Append(cur_src, Piece(pidx + 1, 0, Len(paragraph)))
    /\ pidx' = pidx + 1
    /\ UNCHANGED <<text, max_chars, pc, paragraphs, start, chunks, slices, chunk_src>>
    /\ UNCHANGED procVars

\* lines 123-125, 130-133: current_chunk is stored (with no test that it is
\* non-empty) and the paragraph starts the next one
FlushParagraph ==
    /\ pc = "for" /\ pidx < Len(paragraphs)
    /\ LET paragraph == paragraphs[pidx + 1]
       IN  /\ ~IsOversized(paragraph, max_chars)
           /\ ~ParagraphFits(current_chunk, paragraph, max_chars)
           /\ chunks' = Append(chunks, current_chunk)
           /\ chunk_src' = Append(chunk_src, cur_src)
           /\ current_chunk' = paragraph
           /\ cur_src' = <<Piece(pidx + 1, 0, Len(paragraph))>>
    /\ pidx' = pidx + 1
    /\ UNCHANGED <<text, max_chars, pc, paragraphs, start, slices>>
    /\ UNCHANGED procVars

\* lines 135-139: the last chunk is stored if non-empty, and chunks is returned
FinalFlush ==
    /\ pc = "for" /\ pidx = Len(paragraphs)
    /\ IF current_chunk # <<>>
       THEN /\ chunks' = Append(chunks, current_chunk)
            /\ chunk_src' = Append(chunk_src, cur_src)
       ELSE UNCHANGED <<chunks, chunk_src>>
    /\ pc' = "done"
    /\ UNCHANGED <<text, max_chars, paragraphs, pidx, start, current_chunk,
                   slices, cur_src>>
    /\ UNCHANGED procVars

Next ==
    \/ Begin
    \/ StartLongParagraph
    \/ SliceMerge
    \/ SliceFlush
    \/ EndWhile
    \/ MergeParagraph
    \/ FlushParagraph
    \/ FinalFlush

Spec == Init /\ [][Next]_vars

\* ------------------------------------------------ translate_text (143-180)
\* Python's None, as returned by line 148
PyNone == <<"<None>">>

\* the literal "[[翻譯錯誤:" of lines 180 and 283, one token of a text
MARK == "[[ERR:"

\* the literal '未知錯誤' of line 287
UnknownError == <<"unknown error">>

\* the texts the model API streams back (joined, before .strip()) and the
\* exceptions it raises
Responses == {<<"X">>, <<SP, "X", NL>>, <<SP>>, <<"X", MARK, "X">>}
Errors == {"timeout"}

\* truth value of a str-or-None: None and "" are false
Truthy(x) == x # PyNone /\ x # <<>>

\* tok in s
Contains(s, tok) == \E x \in 1..Len(s) : s[x] = tok

\* line 180: f"[[翻譯錯誤: {e}]]"
ErrorMarker(e) == <<MARK, SP, e, "]]">>

\* sep.join(parts)
RECURSIVE PyJoin(_, _)
PyJoin(sep, parts) ==
    IF parts = <<>> THEN <<>>
    ELSE IF Len(parts) = 1 THEN parts[1]
    ELSE parts[1] \o sep \o PyJoin(sep, Tail(parts))

\* str(n) of an f-string, decimal digits
Digit == <<"0", "1", "2", "3", "4", "5", "6", "7", "8", "9">>

RECURSIVE PyStr(_)
PyStr(n) == IF n < 10 THEN <<Digit[n + 1]>>
            ELSE PyStr(n \div 10) \o <<Digit[(n % 10) + 1]>>

\* ------------------------------------------------- main script (253-301)
\* MAX_CHARS_PER_CHUNK (line 17) is 2500; the main script is run here with a
\* limit scaled to the texts the model draws.
ScaledMaxChars == 3

\* extract_text_from_file returns extracted_text.strip() (line 75) and the
\* main script goes on only if it is non-empty (line 253)
ExtractedTexts == {t \in Texts : t # <<>> /\ PyStrip(t) = t}

\* line 274
ChunkNum(idx) == idx + 1

\* line 283
IsSuccess(tc) == Truthy(tc) /\ ~Contains(tc, MARK)

\* line 287: f"\n--- 塊 {chunk_num} 翻譯失敗 ---\n{translated_chunk or '未知錯誤'}\n---"
FailureBlock(chunk_num, tc) ==
    <<NL, "--- chunk ">> \o PyStr(chunk_num) \o <<" failed ---", NL>>
        \o (IF Truthy(tc) THEN tc ELSE UnknownError) \o <<NL, "---">>

\* mutant of RecordResult: a failed chunk leaves no result
RecordResultDropsFailure(results, chunk_num, tc) ==
    IF IsSuccess(tc) THEN Append(results, tc) ELSE results

\* lines 283-287: what is appended to translated_chunks
RecordResult(results, chunk_num, tc) ==
    IF IsSuccess(tc) THEN Append(results, tc)
    ELSE Append(results, FailureBlock(chunk_num, tc))

\* mutant of NeedsDelay: a delay after the last chunk too
NeedsDelayAlways(chunk_num, total) == chunk_num <= total

\* line 294
NeedsDelay(chunk_num, total) == chunk_num < total

Event(op, k, val, failed) == [op |-> op, k |-> k, val |-> val, failed |-> failed]

\* the main script from line 253 on, with the text of an uploaded file
InitMain ==
    /\ text \in ExtractedTexts
    /\ max_chars = ScaledMaxChars
    /\ ChunkerEntry
    /\ lpc = "split"
    /\ ProcIdle

\* lines 258-269: the chunks are taken over; no chunk stops the script
TakeChunks ==
    /\ lpc = "split" /\ pc = "done"
    /\ text_chunks' = chunks
    /\ total_chunks' = Len(chunks)
    /\ lpc' = IF Len(chunks) = 0 THEN "stopped" ELSE "loop"
    /\ translated_chunks' = <<>>
    /\ errors_occurred' = FALSE
    /\ i' = 0
    /\ UNCHANGED <<chunkVars, translated_chunk, final_translated_text, events>>

\* lines 273-281: the next chunk is handed to translate_text
CallTranslate ==
    /\ lpc = "loop" /\ i < total_chunks
    /\ events' = Append(events, Event("call", ChunkNum(i), text_chunks[i + 1], FALSE))
    /\ lpc' = "translate"
    /\ UNCHANGED <<chunkVars, text_chunks, total_chunks, i, translated_chunk,
                   translated_chunks, errors_occurred, final_translated_text>>

\* line 148: an empty chunk returns None, with no API call
TranslateEmpty ==
    /\ lpc = "translate"
    /\ ~Truthy(text_chunks[i + 1])
    /\ translated_chunk' = PyNone
    /\ events' = Append(events, Event("return", ChunkNum(i), PyNone, FALSE))
    /\ lpc' = "record"
    /\ UNCHANGED <<chunkVars, text_chunks, total_chunks, i, translated_chunks,
                   errors_occurred, final_translated_text>>

\* lines 165-177: the API answers; the joined text is stripped and returned
TranslateOk ==
    /\ lpc = "translate"
    /\ Truthy(text_chunks[i + 1])
    /\ \E full_translated_text \in Responses :
          /\ translated_chunk' = PyStrip(full_translated_text)
          /\ events' = Append(events, Event("return", ChunkNum(i),
                                            PyStrip(full_translated_text), FALSE))
    /\ lpc' = "record"
    /\ UNCHANGED <<chunkVars, text_chunks, total_chunks, i, translated_chunks,
                   errors_occurred, final_translated_text>>

\* lines 174-180: the API call or the streaming raises; the marker is returned
TranslateError ==
    /\ lpc = "translate"
    /\ Truthy(text_chunks[i + 1])
    /\ \E e \in Errors :
          /\ translated_chunk' = ErrorMarker(e)
          /\ events' = Append(events, Event("return", ChunkNum(i), <<e>>, TRUE))
    /\ lpc' = "record"
    /\ UNCHANGED <<chunkVars, text_chunks, total_chunks, i, translated_chunks,
                   errors_occurred, final_translated_text>>

\* lines 283-291: the result or a failure block is appended
Record ==
    /\ lpc = "record"
    /\ translated_chunks' = RecordResult(translated_chunks, ChunkNum(i), translated_chunk)
    /\ errors_occurred' = (errors_occurred \/ ~IsSuccess(translated_chunk))
    /\ lpc' = "pace"
    /\ UNCHANGED <<chunkVars, text_chunks, total_chunks, i, translated_chunk,
                   final_translated_text, events>>

\* lines 294-295: time.sleep(API_CALL_DELAY) before the next chunk
Delay ==
    /\ lpc = "pace"
    /\ NeedsDelay(ChunkNum(i), total_chunks)
    /\ events' = Append(events, Event("sleep", ChunkNum(i), <<>>, FALSE))
    /\ i' = i + 1
    /\ lpc' = "loop"
    /\ UNCHANGED <<chunkVars, text_chunks, total_chunks, translated_chunk,
                   translated_chunks, errors_occurred, final_translated_text>>

\* line 294: no delay after the last chunk
NoDelay ==
    /\ lpc = "pace"
    /\ ~NeedsDelay(ChunkNum(i), total_chunks)
    /\ i' = i + 1
    /\ lpc' = "loop"
    /\ UNCHANGED <<chunkVars, text_chunks, total_chunks, translated_chunk,
                   translated_chunks, errors_occurred, final_translated_text, events>>

\* lines 297-301: the loop is over, the results are joined
JoinResults ==
    /\ lpc = "loop" /\ ~(i < total_chunks)
    /\ final_translated_text' = PyJoin(Sep, translated_chunks)
    /\ lpc' = "joined"
    /\ UNCHANGED <<chunkVars, text_chunks, total_chunks, i, translated_chunk,
                   translated_chunks, errors_occurred, events>>

NextMain ==
    \/ Begin
    \/ StartLongParagraph
    \/ SliceMerge
    \/ SliceFlush
    \/ EndWhile
    \/ MergeParagraph
    \/ FlushParagraph
    \/ FinalFlush
    \/ TakeChunks
    \/ CallTranslate
    \/ TranslateEmpty
    \/ TranslateOk
    \/ TranslateError
    \/ Record
    \/ Delay
    \/ NoDelay
    \/ JoinResults

SpecMain == InitMain /\ [][NextMain]_vars

\* ------------------------------------------------------------ sanity
TypeOK ==
    /\ pc \in {"call", "for", "while", "done"}
    /\ pidx \in 0..Len(paragraphs)
    /\ Len(chunks) = Len(chunk_src)
    /\ lpc \in {"none", "split", "stopped", "loop", "translate", "record", "pace", "joined"}
    /\ i \in 0..total_chunks

\* the cap of SliceFlush is never met by a run with a valid max_chars
CapUnused == max_chars >= 1 => Len(chunks) < MaxEmit

\* ------------------------------------------------- helpers of the claims
Ceil(l, m) == (l + m - 1) \div m

\* a chunk with every two-newline separator deleted
RemoveSeparators(chunk) == Concat(PySplit(chunk))

WholePiece(p) == Piece(p, 0, Len(paragraphs[p]))

PieceText(pcs, j) == PySlice(paragraphs[pcs[j].para], pcs[j].from, pcs[j].to)

\* the places (chunk k, position j) where a piece of paragraph i was put
Places(p) == {kj \in {<<k, j>> : k \in 1..Len(chunk_src), j \in 1..MaxEmit} :
                 /\ kj[2] <= Len(chunk_src[kj[1]])
                 /\ chunk_src[kj[1]][kj[2]].para = p}

Returned == pc = "done" /\ max_chars >= 1

\* ------------------------------------------------------------------ C1
\* C1: for every text and every max_chars >= 1, every chunk emitted by
\* split_text_into_chunks has length <= max_chars, whether it was merged from
\* paragraphs with the separator, is a single paragraph, or is a forced slice.
C1_SizeBound ==
    max_chars >= 1 =>
        /\ \A k \in 1..Len(chunks) : Len(chunks[k]) <= max_chars
        /\ Len(current_chunk) <= max_chars

\* a run that returned a full forced slice and a full chunk merged with the separator
C1_Witness ==
    /\ Returned
    /\ \E k \in 1..Len(chunks) :
          /\ Len(chunk_src[k]) >= 2
          /\ Len(chunks[k]) = max_chars
    /\ \E k \in 1..Len(chunks) :
          /\ Len(chunk_src[k]) = 1
          /\ chunk_src[k][1] # WholePiece(chunk_src[k][1].para)
          /\ Len(chunks[k]) = max_chars

\* ------------------------------------------------------------------ C2
\* C2: for every text and every max_chars >= 1, no chunk emitted by
\* split_text_into_chunks is the empty string.
C2_NoEmptyChunk ==
    max_chars >= 1 => \A k \in 1..Len(chunks) : chunks[k] # <<>>

\* ------------------------------------------------------------------ C3
\* C3: for every text and every max_chars >= 1, the returned chunks, each with
\* its two-newline separators deleted, concatenate in order to the
\* concatenation of the text's paragraphs.
C3_Lossless ==
    Returned =>
        Concat([k \in 1..Len(chunks) |-> RemoveSeparators(chunks[k])])
            = Concat(PySplit(text))

\* a run with a merge, a flush and a forced slice, over a text of both characters
C3_Witness ==
    /\ Returned
    /\ Len(chunks) >= 2
    /\ \E k \in 1..Len(chunks) : Len(chunk_src[k]) >= 2 /\ Len(PySplit(chunks[k])) >= 2
    /\ \E p \in 1..Len(paragraphs) : Len(paragraphs[p]) > max_chars
    /\ \E x, y \in 1..Len(text) : text[x] = "a" /\ text[y] = SP

\* ------------------------------------------------------------------ C4
\* C4: for every max_chars >= 1, an empty or whitespace-only text gives the
\* empty sequence of chunks.
C4_EmptyInput ==
    (Returned /\ \A x \in 1..Len(text) : text[x] \in Whitespace) => chunks = <<>>

\* ------------------------------------------------------------------ C5
\* C5: for every max_chars >= 1, a paragraph of length L > max_chars is cut
\* left to right into exactly ceil(L / max_chars) slices with no overlap and
\* no gap whose concatenation is the paragraph; a text that is one such
\* paragraph gives exactly ceil(L / max_chars) chunks whose concatenation is
\* the text.
SlicesContiguous ==
    /\ \A k \in 1..Len(slices) :
          /\ slices[k].from < slices[k].to
          /\ slices[k].from = (IF k = 1 THEN 0 ELSE slices[k - 1].to)
          /\ Len(slices[k].body) = slices[k].to - slices[k].from
    /\ (slices # <<>>) => slices[Len(slices)].to = start

C5_ForcedSlicing ==
    /\ (pc = "while" /\ max_chars >= 1) => SlicesContiguous
    /\ (pc = "while" /\ max_chars >= 1 /\ ~(start < Len(paragraphs[pidx + 1]))) =>
          LET paragraph == paragraphs[pidx + 1]
          IN  /\ Len(slices) = Ceil(Len(paragraph), max_chars)
              /\ start = Len(paragraph)
              /\ Concat([k \in 1..Len(slices) |-> slices[k].body]) = paragraph
    /\ (Returned /\ Len(paragraphs) = 1 /\ Len(text) > max_chars) =>
          /\ Len(chunks) = Ceil(Len(text), max_chars)
          /\ Concat(chunks) = text

\* one paragraph of length 2 * max_chars + 1 returned as three chunks
C5_Witness ==
    /\ Returned
    /\ Len(paragraphs) = 1
    /\ max_chars >= 2
    /\ Len(text) = 2 * max_chars + 1
    /\ Len(slices) = 3
    /\ Len(chunks) = 3

\* ------------------------------------------------------------------ C9
\* C9: a call with max_chars < 1 is rejected before any chunking step: it
\* neither enters the paragraph loop nor emits a chunk.
C9_RejectedBeforeChunking ==
    max_chars < 1 => (pc \notin {"for", "while"} /\ chunks = <<>>)

\* ------------------------------------------------------------------ C10
\* C10: for every text and every max_chars >= 1, every paragraph of length
\* <= max_chars is never divided (it was put whole into one chunk, and a
\* non-empty one is in exactly one returned chunk), only paragraphs longer
\* than max_chars are cut, and a paragraph of length exactly max_chars is a
\* chunk by itself.
RECURSIVE Rebuild(_, _)
Rebuild(pcs, j) ==
    IF j = 0 THEN <<>> ELSE JoinPiece(Rebuild(pcs, j - 1), PieceText(pcs, j))

C10_ParagraphIntegrity ==
    Returned =>
        /\ \A k \in 1..Len(chunks) : chunks[k] = Rebuild(chunk_src[k], Len(chunk_src[k]))
        /\ \A k \in 1..Len(chunks) : \A j \in 1..Len(chunk_src[k]) :
              chunk_src[k][j] # WholePiece(chunk_src[k][j].para)
                  => Len(paragraphs[chunk_src[k][j].para]) > max_chars
        /\ \A p \in 1..Len(paragraphs) :
              LET paragraph == paragraphs[p]
              IN  /\ Len(paragraph) <= max_chars => Cardinality(Places(p)) <= 1
                  /\ (paragraph # <<>> /\ Len(paragraph) <= max_chars)
                        => Cardinality(Places(p)) = 1
                  /\ Len(paragraph) = max_chars =>
                        \E k \in 1..Len(chunks) :
                            /\ chunk_src[k] = <<WholePiece(p)>>
                            /\ chunks[k] = paragraph

\* a paragraph of length exactly max_chars after a shorter, non-empty one
C10_Witness ==
    /\ Returned
    /\ max_chars >= 2
    /\ Len(paragraphs) = 2
    /\ Len(paragraphs[2]) = max_chars
    /\ paragraphs[1] # <<>> /\ Len(paragraphs[1]) < max_chars
    /\ Len(chunks) = 2

\* --------------------------------------- helpers of the loop's claims
Calls == SelectSeq(events, LAMBDA ev : ev.op = "call")

Returns == SelectSeq(events, LAMBDA ev : ev.op = "return")

Sleeps == SelectSeq(events, LAMBDA ev : ev.op = "sleep")

InLoop == lpc \in {"loop", "translate", "record", "pace", "joined"}

IsFailureBlock(r) == Len(r) >= 2 /\ r[1] = NL /\ r[2] = "--- chunk "

\* ------------------------------------------------------------------ C6
\* C6: over a chunk list of length n the loop calls translate_text exactly n
\* times, call k on chunk k and only after call k-1 has returned, and ends
\* with exactly n results, result k made from the return of call k; a failure
\* at a chunk never stops the run.
C6_OrderedOneToOne ==
    InLoop =>
        /\ Len(Calls) - Len(Returns) = (IF lpc = "translate" THEN 1 ELSE 0)
        /\ \A k \in 1..Len(Calls) :
              /\ Calls[k].k = k
              /\ Calls[k].val = text_chunks[k]
        /\ \A k \in 1..Len(Returns) : Returns[k].k = k
        /\ Len(translated_chunks) = (IF lpc = "record" THEN Len(Returns) - 1
                                     ELSE Len(Returns))
        /\ \A k \in 1..Len(translated_chunks) :
              \/ /\ ~Returns[k].failed
                 /\ translated_chunks[k] = Returns[k].val
              \/ /\ IsFailureBlock(translated_chunks[k])
                 /\ SubSeq(translated_chunks[k], 3, 2 + Len(PyStr(k))) = PyStr(k)
        /\ lpc = "joined" =>
              /\ Len(Calls) = total_chunks
              /\ Len(Returns) = total_chunks
              /\ Len(translated_chunks) = total_chunks
        /\ lpc # "joined" => ENABLED NextMain

\* a finished run of two chunks whose first call failed and whose second succeeded
C6_Witness ==
    /\ lpc = "joined"
    /\ total_chunks = 2
    /\ Returns[1].failed /\ IsFailureBlock(translated_chunks[1])
    /\ ~Returns[2].failed /\ translated_chunks[2] = <<"X">>
    /\ Len(translated_chunks) = 2

\* ------------------------------------------------------------------ C7
\* C7: the result recorded for chunk k is the (trimmed) output of
\* translate_text whenever the transform succeeded, whatever that text is,
\* and is a failure block carrying k and the failure detail exactly when the
\* transform raised; errors_occurred is set exactly when some call raised.
C7_Classification ==
    InLoop =>
        /\ \A k \in 1..Len(translated_chunks) :
              IF Returns[k].failed
              THEN translated_chunks[k] = FailureBlock(k, ErrorMarker(Returns[k].val[1]))
              ELSE translated_chunks[k] = Returns[k].val
        /\ lpc \in {"pace", "loop", "joined"} =>
              (errors_occurred <=> \E k \in 1..Len(Returns) : Returns[k].failed)

\* the same statement on the calls that reached the API (non-empty chunks):
\* it fails there too, on an answer that is empty once stripped or holds MARK
C7_OnApiCalls ==
    (InLoop /\ \A k \in 1..Len(text_chunks) : text_chunks[k] # <<>>) =>
        \A k \in 1..Len(translated_chunks) :
            ~Returns[k].failed => translated_chunks[k] = Returns[k].val

\* ------------------------------------------------------------------ C8
\* C8: over n >= 1 chunks the delay is performed exactly n-1 times, once
\* between the return of call k and call k+1 for every k < n, never before
\* the first call nor after the last, whatever the calls returned.
C8_Pacing ==
    InLoop =>
        /\ \A j \in 1..Len(events) :
              /\ events[j].op = (CASE j % 3 = 1 -> "call"
                                   [] j % 3 = 2 -> "return"
                                   [] OTHER -> "sleep")
              /\ events[j].k = ((j + 2) \div 3)
              /\ events[j].op = "sleep" => events[j].k < total_chunks
        /\ lpc = "joined" =>
              /\ Len(Sleeps) = total_chunks - 1
              /\ Len(events) = 3 * total_chunks - 1
              /\ events[Len(events)].op = "return"

\* a finished run of three chunks, with a failed and a successful call, and two delays
C8_Witness ==
    /\ lpc = "joined"
    /\ total_chunks = 3
    /\ Len(Sleeps) = 2
    /\ \E k \in 1..3 : Returns[k].failed
    /\ \E k \in 1..3 : ~Returns[k].failed
====
